---- MODULE Spec2Model ----
(***************************************************************************)
(* Contract analysis pipeline: clause extraction (clause_extraction.py),   *)
(* precedent retrieval (retrieval_engine.py), batch risk scoring           *)
(* (llm_engine.py) and report assembly (pipeline.py).                      *)
(*                                                                         *)
(* Text is a sequence of one-character strings, so that the regular        *)
(* expressions and substring tests of the source are computed character    *)
(* by character.                                                           *)
(***************************************************************************)
EXTENDS Integers, Sequences, FiniteSets, TLC

VARIABLES
  pdf,              \* the document: "missing", or the sequence of its pages' texts
  fn,               \* the function called last on its own ("none" before any call)
  args,             \* the arguments of that call
  ret,              \* the outcome of that call
  imported,         \* the modules whose top-level code has run
  indexes,          \* retrieval_engine.indexes
  metadata_store,   \* retrieval_engine.metadata_store
  corpus,           \* retrieval_engine.precedents, as the module holds it
  builds,           \* how many times build_indexes() has run in the process
  requests,         \* the calls of process_clauses in flight, one per worker thread
  api_key,          \* whether GROQ_API_KEY is set in the environment
  selected_type,    \* the contract type the run was started with
  pc,               \* where the run of pipeline.py stands
  extracted_raw,    \* run_analysis_pipeline's local of that name
  enriched_clauses, \* run_analysis_pipeline's local of that name
  llm,              \* what the Groq call of this run did
  risk_map,         \* analyze_batch_risk's risk_map, then the pipeline's
  report            \* the value run_analysis_pipeline returned

callVars == <<fn, args, ret>>
engineVars == <<imported, indexes, metadata_store, corpus, builds>>
runVars == <<requests, api_key, selected_type, pc, extracted_raw, enriched_clauses, llm,
             risk_map, report>>
vars == <<pdf, fn, args, ret, imported, indexes, metadata_store, corpus, builds, requests,
          api_key, selected_type, pc, extracted_raw, enriched_clauses, llm, risk_map, report>>

\* ------------------------------------------------------------------ bounds
\* Longest document, in pieces (pages).
MaxPieces == 2
\* Largest top_k a caller passes to retrieve_similar.
MaxTopK == 3
\* Longest clause list a caller passes to process_clauses.
MaxClauses == 2
\* Worker threads that serve analysis requests at the same time.
NumRequests == 2

\* ------------------------------------------------------- sequence helpers
Min(S) == CHOOSE x \in S : \A y \in S : x <= y
Max(S) == CHOOSE x \in S : \A y \in S : x >= y

RECURSIVE Flatten(_)
Flatten(ss) == IF ss = <<>> THEN <<>> ELSE Head(ss) \o Flatten(Tail(ss))

\* s[i..] starts with p
StartsAt(s, i, p) ==
  /\ i + Len(p) - 1 <= Len(s)
  /\ \A j \in 1..Len(p) : s[i + j - 1] = p[j]

\* Python's `p in s`
Contains(s, p) == \E i \in 1..(Len(s) - Len(p) + 1) : StartsAt(s, i, p)

\* ------------------------------------------------------ character classes
UpperChars == <<"A","B","C","D","E","F","G","H","I","J","K","L","M","N","O","P","Q","R","S","T","U","V","W","X","Y","Z">>
LowerChars == <<"a","b","c","d","e","f","g","h","i","j","k","l","m","n","o","p","q","r","s","t","u","v","w","x","y","z">>

LowerChar(c) ==
  IF \E k \in 1..26 : UpperChars[k] = c
    THEN LowerChars[CHOOSE k \in 1..26 : UpperChars[k] = c]
    ELSE c

\* str.lower()
Lower(s) == [i \in 1..Len(s) |-> LowerChar(s[i])]

IsLetter(c) == \E k \in 1..26 : c = UpperChars[k] \/ c = LowerChars[k]
IsDigit(c) == c \in {"0","1","2","3","4","5","6","7","8","9"}
\* \s of re, and the characters str.strip() removes
IsSpace(c) == c \in {" ", "\t", "\n", "\r"}

\* concatenation of ss[lo..hi], halving the range
RECURSIVE FlattenRange(_, _, _)
FlattenRange(ss, lo, hi) ==
  IF lo > hi THEN <<>>
  ELSE IF lo = hi THEN ss[lo]
  ELSE LET mid == (lo + hi) \div 2
       IN  FlattenRange(ss, lo, mid) \o FlattenRange(ss, mid + 1, hi)

\* str.replace(old, new), for an `old` whose occurrences cannot overlap
\* ("\r\n" and "\r" here): every occurrence is replaced
Replace(s, old, new) ==
  LET at(i) == StartsAt(s, i, old)
      inside(i) == \E j \in 1..(Len(old) - 1) : i - j >= 1 /\ at(i - j)
      out == [i \in 1..Len(s) |->
                IF at(i) THEN new ELSE IF inside(i) THEN <<>> ELSE <<s[i]>>]
  IN  FlattenRange(out, 1, Len(s))

\* length of the run of characters of `class` that starts at s[i]
RECURSIVE RunLen(_, _, _)
RunLen(s, i, class) ==
  IF i <= Len(s) /\ s[i] \in class THEN 1 + RunLen(s, i + 1, class) ELSE 0

\* re.sub(r"[class]+", new, s): each maximal run becomes one `new`
SubRuns(s, class, new) ==
  LET out == [i \in 1..Len(s) |->
                IF s[i] \notin class THEN <<s[i]>>
                ELSE IF i = 1 \/ s[i - 1] \notin class THEN new
                ELSE <<>>]
  IN  FlattenRange(out, 1, Len(s))

\* str.strip()
Strip(s) ==
  LET keep == {i \in 1..Len(s) : ~IsSpace(s[i])}
  IN  IF keep = {} THEN <<>> ELSE SubSeq(s, Min(keep), Max(keep))

\* --------------------------------------------------------- preprocess_text
\* preprocess_text without the final strip()
preprocess_text_NoStrip(text) ==
  LET t1 == Replace(Replace(text, <<"\r", "\n">>, <<"\n">>), <<"\r">>, <<"\n">>)
  IN  SubRuns(t1, {" ", "\t"}, <<" ">>)

preprocess_text(text) ==
  LET t1 == Replace(Replace(text, <<"\r", "\n">>, <<"\n">>), <<"\r">>, <<"\n">>)
      t2 == SubRuns(t1, {" ", "\t"}, <<" ">>)
  IN  Strip(t2)

\* ---------------------------------------------------- extract_text_from_pdf
\* One page's contribution: its text and a blank line, nothing for a page
\* without text.
RECURSIVE PagesText(_)
PagesText(pages) ==
  IF pages = <<>> THEN <<>>
  ELSE (IF Head(pages) # <<>> THEN Head(pages) \o <<"\n", "\n">> ELSE <<>>)
         \o PagesText(Tail(pages))

\* [ok |-> FALSE] stands for FileNotFoundError
extract_text_from_pdf(p) ==
  IF p = "missing" THEN [ok |-> FALSE, text |-> <<>>]
  ELSE [ok |-> TRUE, text |-> PagesText(p)]

\* ------------------------------------------------------ split_into_clauses
MinClauseLen == 50

\* ^ under re.MULTILINE
AtLineStart(s, i) == i = 1 \/ s[i - 1] = "\n"

\* ^\d{1,2}\.\s at s[i], with d digits: the length matched, 0 when no match
HeadingLen(s, i, d) ==
  IF /\ d >= 1
     /\ AtLineStart(s, i)
     /\ \A k \in 0..(d - 1) : i + k <= Len(s) /\ IsDigit(s[i + k])
     /\ i + d + 1 <= Len(s)
     /\ s[i + d] = "."
     /\ IsSpace(s[i + d + 1])
    THEN d + 2 ELSE 0

\* ^\d{1,2}\.\d{1,2}\s at s[i], with d1 and d2 digits
SubHeadingLen(s, i, d1, d2) ==
  IF /\ d1 >= 1 /\ d2 >= 1
     /\ AtLineStart(s, i)
     /\ \A k \in 0..(d1 - 1) : i + k <= Len(s) /\ IsDigit(s[i + k])
     /\ i + d1 + d2 + 1 <= Len(s)
     /\ s[i + d1] = "."
     /\ \A k \in 1..d2 : IsDigit(s[i + d1 + k])
     /\ IsSpace(s[i + d1 + d2 + 1])
    THEN d1 + d2 + 2 ELSE 0

\* (?:\n{2,}|^\d{1,2}\.\s|^\d{1,2}\.\d{1,2}\s) at s[i]: the alternatives in
\* order, each greedy with backtracking; 0 when the pattern does not match
PatternLen(s, i) ==
  LET nl == RunLen(s, i, {"\n"})
      h2 == HeadingLen(s, i, 2)
      h1 == HeadingLen(s, i, 1)
      s22 == SubHeadingLen(s, i, 2, 2)
      s21 == SubHeadingLen(s, i, 2, 1)
      s12 == SubHeadingLen(s, i, 1, 2)
      s11 == SubHeadingLen(s, i, 1, 1)
  IN  IF nl >= 2 THEN nl
      ELSE IF h2 > 0 THEN h2
      ELSE IF h1 > 0 THEN h1
      ELSE IF s22 > 0 THEN s22
      ELSE IF s21 > 0 THEN s21
      ELSE IF s12 > 0 THEN s12
      ELSE s11

\* re.split(pattern, text, flags=re.MULTILINE): the search resumes at
\* `start`, right after the previous match
RECURSIVE SplitFrom(_, _, _)
SplitFrom(s, start, acc) ==
  LET hits == {j \in start..Len(s) : PatternLen(s, j) > 0}
  IN  IF hits = {} THEN Append(acc, SubSeq(s, start, Len(s)))
      ELSE LET i == Min(hits)
               m == PatternLen(s, i)
           IN  SplitFrom(s, i + m, Append(acc, SubSeq(s, start, i - 1)))

ReSplit(s) == SplitFrom(s, 1, <<>>)

\* re.fullmatch(r"[a-zA-Z]|i+|v+|x+", s)
IsBareToken(s) ==
  \/ Len(s) = 1 /\ IsLetter(s[1])
  \/ Len(s) >= 1 /\ \E c \in {"i", "v", "x"} : \A k \in 1..Len(s) : s[k] = c

\* the loop body without its length test
CleanClause_NoLengthFilter(raw) ==
  LET clause == Strip(raw)
  IN  IF IsBareToken(Lower(clause)) THEN <<>>
      ELSE <<SubRuns(clause, {"\n"}, <<" ">>)>>

\* the body of the loop over raw_clauses: <<>> when the fragment is skipped,
\* the one-element sequence of the cleaned fragment otherwise
CleanClause(raw) ==
  LET clause == Strip(raw)
  IN  IF Len(clause) < MinClauseLen THEN <<>>
      ELSE IF IsBareToken(Lower(clause)) THEN <<>>
      ELSE <<SubRuns(clause, {"\n"}, <<" ">>)>>

RECURSIVE CleanAll(_)
CleanAll(raws) ==
  IF raws = <<>> THEN <<>> ELSE CleanClause(Head(raws)) \o CleanAll(Tail(raws))

split_into_clauses(text) == CleanAll(ReSplit(text))

\* --------------------------------------------------------- classify_clause
\* the keyword rules, in the order of the if-chain
Rules == <<
  [tag |-> "Termination Clause",
   keywords |-> <<<<"t", "e", "r", "m", "i", "n", "a", "t", "e">>,
                 <<"t", "e", "r", "m", "i", "n", "a", "t", "i", "o", "n">>>>],
  [tag |-> "Confidentiality Clause",
   keywords |-> <<<<"c", "o", "n", "f", "i", "d", "e", "n", "t", "i", "a", "l">>,
                 <<"n", "o", "n", "-", "d", "i", "s", "c", "l", "o", "s", "u", "r", "e">>>>],
  [tag |-> "Liability Clause",
   keywords |-> <<<<"l", "i", "a", "b", "i", "l", "i", "t", "y">>,
                 <<"l", "i", "a", "b", "l", "e">>,
                 <<"i", "n", "d", "e", "m", "n", "i", "f", "y">>,
                 <<"i", "n", "d", "e", "m", "n", "i", "t", "y">>>>],
  [tag |-> "Intellectual Property Clause",
   keywords |-> <<<<"i", "n", "t", "e", "l", "l", "e", "c", "t", "u", "a", "l", " ", "p", "r", "o", "p", "e", "r", "t", "y">>,
                 <<"i", "p", " ", "r", "i", "g", "h", "t", "s">>,
                 <<"c", "o", "p", "y", "r", "i", "g", "h", "t">>,
                 <<"t", "r", "a", "d", "e", "m", "a", "r", "k">>>>],
  [tag |-> "Governing Law Clause",
   keywords |-> <<<<"g", "o", "v", "e", "r", "n", "i", "n", "g", " ", "l", "a", "w">>,
                 <<"g", "o", "v", "e", "r", "n", "e", "d", " ", "b", "y", " ", "t", "h", "e", " ", "l", "a", "w", "s">>>>],
  [tag |-> "Notice Clause",
   keywords |-> <<<<"n", "o", "t", "i", "c", "e", " ", "s", "h", "a", "l", "l">>,
                 <<"w", "r", "i", "t", "t", "e", "n", " ", "n", "o", "t", "i", "c", "e">>,
                 <<"r", "e", "g", "i", "s", "t", "e", "r", "e", "d", " ", "m", "a", "i", "l">>>>],
  [tag |-> "Assignment Clause",
   keywords |-> <<<<"m", "a", "y", " ", "n", "o", "t", " ", "a", "s", "s", "i", "g", "n">>,
                 <<"a", "s", "s", "i", "g", "n", " ", "t", "h", "i", "s", " ", "a", "g", "r", "e", "e", "m", "e", "n", "t">>>>],
  [tag |-> "Payment Clause",
   keywords |-> <<<<"p", "a", "y", "m", "e", "n", "t">>,
                 <<"s", "a", "l", "a", "r", "y">>,
                 <<"f", "e", "e">>,
                 <<"c", "o", "m", "p", "e", "n", "s", "a", "t", "i", "o", "n">>,
                 <<"a", "m", "o", "u", "n", "t">>,
                 <<"c", "o", "n", "s", "i", "d", "e", "r", "a", "t", "i", "o", "n">>,
                 <<"w", "a", "g", "e">>,
                 <<"r", "e", "m", "u", "n", "e", "r", "a", "t", "i", "o", "n">>>>]
>>

RuleMatches(r, clause_lower) ==
  \E k \in 1..Len(Rules[r].keywords) : Contains(clause_lower, Rules[r].keywords[k])

\* the if-chain from rule r on
RECURSIVE ClassifyFrom(_, _)
ClassifyFrom(r, clause_lower) ==
  IF r > Len(Rules) THEN "Other"
  ELSE IF RuleMatches(r, clause_lower) THEN Rules[r].tag
  ELSE ClassifyFrom(r + 1, clause_lower)

\* the Payment rule tried first
classify_clause_PaymentFirst(clause) ==
  IF RuleMatches(8, Lower(clause)) THEN "Payment Clause"
  ELSE ClassifyFrom(1, Lower(clause))

classify_clause(clause) == ClassifyFrom(1, Lower(clause))

\* ------------------------------------------------ extract_clauses_from_pdf
ConfidenceScore == 80   \* 0.80, in hundredths

\* the numbering with enumerate's default start
NumberClausesFromZero(clauses) ==
  [i \in 1..Len(clauses) |->
     [clause_number |-> i - 1,
      clause_text |-> clauses[i],
      clause_type |-> classify_clause(clauses[i]),
      confidence_score |-> ConfidenceScore]]

\* enumerate(clauses, start=1)
NumberClauses(clauses) ==
  [i \in 1..Len(clauses) |->
     [clause_number |-> i,
      clause_text |-> clauses[i],
      clause_type |-> classify_clause(clauses[i]),
      confidence_score |-> ConfidenceScore]]

\* [ok |-> FALSE] when extract_text_from_pdf raises
extract_clauses_from_pdf(p) ==
  LET contract_text == extract_text_from_pdf(p)
  IN  IF ~contract_text.ok THEN [ok |-> FALSE, clauses |-> <<>>]
      ELSE [ok |-> TRUE,
            clauses |-> NumberClauses(split_into_clauses(preprocess_text(contract_text.text)))]

\* -------------------------------------------------------- retrieval_engine
EMBEDDING_DIM == 384
TOP_K == 2
\* similarity scores are counted in units of 0.00001
SIMILARITY_THRESHOLD == 45000

\* the corpus (its typographic apostrophes written ')
precedents == <<
  [contract_type |-> "Employment", clause_type |-> "Payment Clause",
   text |-> "Salary must be paid within 30 days of invoice receipt."],
  [contract_type |-> "Employment", clause_type |-> "Payment Clause",
   text |-> "Employee compensation includes bonus and stock options."],
  [contract_type |-> "Employment", clause_type |-> "Termination Clause",
   text |-> "Either party may terminate employment with 60 days written notice."],
  [contract_type |-> "Employment", clause_type |-> "Confidentiality Clause",
   text |-> "Employee shall not disclose confidential information during employment."],
  [contract_type |-> "NDA", clause_type |-> "Confidentiality Clause",
   text |-> "Confidential information shall not be disclosed for 5 years."],
  [contract_type |-> "NDA", clause_type |-> "Confidentiality Clause",
   text |-> "The receiving party must protect proprietary information."],
  [contract_type |-> "Service", clause_type |-> "Payment Clause",
   text |-> "Service fees shall be invoiced monthly and payable within 30 days of receipt."],
  [contract_type |-> "Service", clause_type |-> "Liability Clause",
   text |-> "The provider's aggregate liability shall not exceed the fees paid in the previous 12 months."],
  [contract_type |-> "Service", clause_type |-> "Termination Clause",
   text |-> "Either party may terminate this Agreement for convenience upon 30 days written notice."],
  [contract_type |-> "Service", clause_type |-> "Confidentiality Clause",
   text |-> "The service provider shall keep all customer data confidential and use it only to perform the services."],
  [contract_type |-> "Vendor", clause_type |-> "Payment Clause",
   text |-> "Buyer shall pay all undisputed invoices within 45 days of receipt."],
  [contract_type |-> "Vendor", clause_type |-> "Intellectual Property Clause",
   text |-> "All custom deliverables created under this Agreement shall be owned by the Buyer upon full payment."],
  [contract_type |-> "Vendor", clause_type |-> "Liability Clause",
   text |-> "Vendor shall be liable only for direct damages and excludes liability for loss of profits or consequential damages."],
  [contract_type |-> "Vendor", clause_type |-> "Termination Clause",
   text |-> "Buyer may terminate this Agreement immediately upon Vendor's material breach that remains uncured for 30 days."],
  [contract_type |-> "Lease", clause_type |-> "Payment Clause",
   text |-> "Tenant shall pay monthly rent on or before the 5th day of each calendar month."],
  [contract_type |-> "Lease", clause_type |-> "Termination Clause",
   text |-> "Either party may terminate this Lease upon 60 days prior written notice after the initial term."],
  [contract_type |-> "Lease", clause_type |-> "Liability Clause",
   text |-> "The landlord shall not be liable for any loss or damage to Tenant's personal property, except where caused by landlord's gross negligence."],
  [contract_type |-> "Lease", clause_type |-> "Governing Law Clause",
   text |-> "This Lease shall be governed by and construed in accordance with the laws of the State in which the premises are located."]
>>

\* a Python dict is a function; d.get(k, default)
Get(d, k, default) == IF k \in DOMAIN d THEN d[k] ELSE default
EmptyDict == <<>>

\* the (contract_type, clause_type) pairs of the corpus
GroupKeys ==
  {<<precedents[i].contract_type, precedents[i].clause_type>> : i \in 1..Len(precedents)}

\* grouped_data[key]: the texts of the group, in corpus order
GroupedTexts(key) ==
  LET of_key(p) == <<p.contract_type, p.clause_type>> = key
      members == SelectSeq(precedents, of_key)
  IN  [i \in 1..Len(members) |-> members[i].text]

\* model.encode + normalize_vectors: the unit vector of a text, kept as the
\* text it embeds
Embedding(text) == [embeds |-> text]

\* faiss.IndexFlatIP(EMBEDDING_DIM) after index.add(embeddings)
BuildIndex(texts) ==
  [d |-> EMBEDDING_DIM, vectors |-> [i \in 1..Len(texts) |-> Embedding(texts[i])]]

\* build_indexes(): the values of indexes and metadata_store it leaves
build_indexes ==
  [indexes |-> [key \in GroupKeys |-> BuildIndex(GroupedTexts(key))],
   metadata_store |-> [key \in GroupKeys |-> GroupedTexts(key)]]

\* The inner products a query can have with a stored vector: the encoder is a
\* black box, so every score of this set is possible for every pair.
Scores == {-10000, 44996, 45000, 45004, 90000}

\* round(score, 4): to the nearest multiple of 10 units, ties to even
Round4(score) ==
  LET q == score \div 10
      r == score % 10
  IN  10 * (IF r > 5 \/ (r = 5 /\ q % 2 = 1) THEN q + 1 ELSE q)

\* index.search(query, k) for a query with inner products ip[1..ntotal]: the
\* k best vectors, best first, in any order among equal scores
IndexSearch(ip, k) ==
  LET n == Len(ip)
      orders == {idx \in [1..k -> 1..n] :
                   /\ \A a, b \in 1..k : a < b => idx[a] # idx[b] /\ ip[idx[a]] >= ip[idx[b]]
                   /\ \A j \in 1..n :
                        (\A a \in 1..k : idx[a] # j) => \A a \in 1..k : ip[idx[a]] >= ip[j]}
  IN  {[indices |-> idx, scores |-> [a \in 1..k |-> ip[idx[a]]]] : idx \in orders}

\* the loop over zip(indices[0], scores[0]), from position a on
RECURSIVE FilterMatchesNoFloor(_, _, _)
FilterMatchesNoFloor(found, stored_texts, a) ==
  IF a > Len(found.indices) THEN <<>>
  ELSE <<[text |-> stored_texts[found.indices[a]], score |-> Round4(found.scores[a])]>>
         \o FilterMatchesNoFloor(found, stored_texts, a + 1)

RECURSIVE FilterMatchesFrom(_, _, _)
FilterMatchesFrom(found, stored_texts, a) ==
  IF a > Len(found.indices) THEN <<>>
  ELSE (IF found.scores[a] < SIMILARITY_THRESHOLD THEN <<>>
        ELSE <<[text |-> stored_texts[found.indices[a]], score |-> Round4(found.scores[a])]>>)
         \o FilterMatchesFrom(found, stored_texts, a + 1)

\* the loop without its test of the score
FilterMatches_NoFloor(found, stored_texts) == FilterMatchesNoFloor(found, stored_texts, 1)

FilterMatches(found, stored_texts) == FilterMatchesFrom(found, stored_texts, 1)

Returns(v) == [raised |-> "none", value |-> v]
Raises(e) == [raised |-> e, value |-> <<>>]

\* the part of retrieve_similar after its two early returns: the outcomes of
\* the lookups, the search and the filter
SearchGroup(key, top_k) ==
  IF key \notin DOMAIN indexes \/ key \notin DOMAIN metadata_store
    THEN {Raises("KeyError")}
    ELSE LET index == indexes[key]
             stored_texts == metadata_store[key]
             k == IF top_k < Len(stored_texts) THEN top_k ELSE Len(stored_texts)
         IN  {Returns(FilterMatches(found, stored_texts)) :
                found \in UNION {IndexSearch(ip, k) : ip \in [1..Len(index.vectors) -> Scores]}}

\* retrieve_similar without the test that the group exists
retrieve_similar_NoKeyCheck(clause_text, contract_type, clause_type, top_k) ==
  IF clause_text = <<>> THEN {Returns(<<>>)}
  ELSE SearchGroup(<<contract_type, clause_type>>, top_k)

\* retrieve_similar(clause_text, contract_type, clause_type, top_k): the set
\* of its possible outcomes
retrieve_similar(clause_text, contract_type, clause_type, top_k) ==
  IF clause_text = <<>> THEN {Returns(<<>>)}
  ELSE IF <<contract_type, clause_type>> \notin DOMAIN indexes THEN {Returns(<<>>)}
  ELSE SearchGroup(<<contract_type, clause_type>>, top_k)

\* Python's None
None == "None"

\* process_clauses from clause i on: the set of its possible outcomes
RECURSIVE ProcessFrom(_, _, _)
ProcessFrom(clause_list, contract_type, i) ==
  IF i > Len(clause_list) THEN {Returns(<<>>)}
  ELSE LET clause == clause_list[i]
           clause_text == Get(clause, "clause_text", <<>>)
           clause_type == Get(clause, "clause_type", "Other")
           enriched(similar_clauses) ==
             [clause_number |-> Get(clause, "clause_number", None),
              clause |-> clause_text,
              clause_type |-> clause_type,
              confidence_score |-> Get(clause, "confidence_score", None),
              similar_clauses |-> similar_clauses]
       IN  {IF h.raised # "none" THEN h
            ELSE IF t.raised # "none" THEN t
            ELSE Returns(<<enriched(h.value)>> \o t.value) :
              h \in retrieve_similar(clause_text, contract_type, clause_type, TOP_K),
              t \in ProcessFrom(clause_list, contract_type, i + 1)}

\* process_clauses with every lookup made under the category of the first
\* clause
RECURSIVE ProcessFromFirstCategory(_, _, _)
ProcessFromFirstCategory(clause_list, contract_type, i) ==
  IF i > Len(clause_list) THEN {Returns(<<>>)}
  ELSE LET clause == clause_list[i]
           clause_text == Get(clause, "clause_text", <<>>)
           enriched(similar_clauses) ==
             [clause_number |-> Get(clause, "clause_number", None),
              clause |-> clause_text,
              clause_type |-> Get(clause, "clause_type", "Other"),
              confidence_score |-> Get(clause, "confidence_score", None),
              similar_clauses |-> similar_clauses]
       IN  {IF h.raised # "none" THEN h
            ELSE IF t.raised # "none" THEN t
            ELSE Returns(<<enriched(h.value)>> \o t.value) :
              h \in retrieve_similar(clause_text, contract_type,
                                     Get(clause_list[1], "clause_type", "Other"), TOP_K),
              t \in ProcessFromFirstCategory(clause_list, contract_type, i + 1)}

process_clauses_FirstCategory(clause_list, contract_type) ==
  ProcessFromFirstCategory(clause_list, contract_type, 1)

process_clauses(clause_list, contract_type) == ProcessFrom(clause_list, contract_type, 1)

\* --------------------------------------------------------------- llm_engine
\* An item of the "results" array of the response. `object` tells a JSON
\* object from any other JSON value, `keys` the keys the object has. The
\* value under clause_number is of kind "number" (n), "string" (the digits
\* of n), "text" (a string int() rejects) or "null".
ResultItem(keys, kind, n, risk_level) ==
  [object |-> TRUE, keys |-> keys,
   clause_number |-> [kind |-> kind, n |-> n],
   risk_level |-> risk_level,
   explanation |-> <<"Deviates from the precedent.">>]

NotAnObject ==
  [object |-> FALSE, keys |-> {},
   clause_number |-> [kind |-> "null", n |-> 0],
   risk_level |-> "",
   explanation |-> <<>>]

AllKeys == {"clause_number", "risk_level", "explanation"}

\* the items a response can hold about the clauses 1..n, and about a clause
\* number past the last
ResultItems(n) ==
  UNION {{ResultItem(AllKeys, "number", k, "Low"),
          ResultItem(AllKeys, "number", k, "Critical"),
          ResultItem(AllKeys, "string", k, "Medium"),
          ResultItem({"clause_number"}, "number", k, "")} : k \in 1..n}
    \cup {ResultItem(AllKeys, "number", n + 1, "Low"),
          ResultItem({"risk_level", "explanation"}, "null", 0, "High"),
          ResultItem(AllKeys, "null", 0, "High"),
          ResultItem(AllKeys, "text", 0, "High"),
          NotAnObject}

\* item.get(key, default)
ItemGet(item, key, default) == IF key \in item.keys THEN item[key] ELSE default

\* d[k] = v
Put(d, k, v) == [x \in DOMAIN d \cup {k} |-> IF x = k THEN v ELSE d[x]]

\* the except branch with nothing in its dict
FallbackMap_Empty(clauses, e) == EmptyDict

\* the dict of the except branch (lines 138-144)
FallbackMap(clauses, e) ==
  [num \in {clauses[i].clause_number : i \in 1..Len(clauses)} |->
     [risk_level |-> "High", explanation |-> <<"Groq Engine Error: ", e>>]]

\* one turn of `for item in results`: the exception it raises ("none" when
\* it raises none) and the risk_map it leaves
ParseResultItem(map, item) ==
  IF ~item.object THEN [raised |-> "AttributeError", map |-> map]
  ELSE LET num == ItemGet(item, "clause_number", [kind |-> "null", n |-> 0])
       IN  IF num.kind = "null" THEN [raised |-> "none", map |-> map]
           ELSE IF num.kind = "text" THEN [raised |-> "ValueError", map |-> map]
           ELSE [raised |-> "none",
                 map |-> Put(map, num.n,
                             [risk_level |-> ItemGet(item, "risk_level", "Unknown"),
                              explanation |-> ItemGet(item, "explanation", <<"Analysis complete.">>)])]

\* an item as the prompt asks for it
WellFormedItem(item) ==
  item.object /\ item.keys = AllKeys /\ item.clause_number.kind = "number"

\* ----------------------------------------------------------------- pipeline
REQUIRED_CLAUSES ==
  [Employment |-> <<"Termination Clause", "Confidentiality Clause", "Payment Clause",
                    "Notice Clause", "Governing Law Clause">>,
   NDA |-> <<"Confidentiality Clause", "Termination Clause", "Governing Law Clause">>,
   Service |-> <<"Payment Clause", "Liability Clause", "Confidentiality Clause",
                 "Termination Clause", "Governing Law Clause", "Notice Clause">>,
   Vendor |-> <<"Payment Clause", "Liability Clause", "Intellectual Property Clause",
                "Termination Clause", "Governing Law Clause">>,
   Lease |-> <<"Payment Clause", "Termination Clause", "Liability Clause",
               "Governing Law Clause">>]

\* risk_map.get(num) with a default of High
RiskDataFor_DefaultHigh(map, num) ==
  Get(map, num, [risk_level |-> "High",
                 explanation |-> <<"No risk data returned for this clause.">>])

\* risk_map.get(num, {...}) (lines 81-87)
RiskDataFor(map, num) ==
  Get(map, num, [risk_level |-> "Unknown",
                 explanation |-> <<"No risk data returned for this clause.">>])

\* final_clauses with an entry only for the clauses the risk_map names
FinalClauses_OnlyScored(clauses, map) ==
  LET scored(c) == c.clause_number \in DOMAIN map
      kept == SelectSeq(clauses, scored)
  IN  [i \in 1..Len(kept) |->
         [title |-> kept[i].clause_type,
          risk_level |-> map[kept[i].clause_number].risk_level,
          explanation |-> map[kept[i].clause_number].explanation]]

\* the loop of lines 76-95: final_clauses
FinalClauses(clauses, map) ==
  [i \in 1..Len(clauses) |->
     [title |-> clauses[i].clause_type,
      risk_level |-> RiskDataFor(map, clauses[i].clause_number).risk_level,
      explanation |-> RiskDataFor(map, clauses[i].clause_number).explanation]]

\* the loop of lines 76-78: found_types
FoundTypes(clauses) == {clauses[i].clause_type : i \in 1..Len(clauses)}

\* the required categories that were found, instead of those that were not
MissingClauses_Inverted(required_list, found_types) ==
  LET found(c) == c \in found_types
  IN  SelectSeq(required_list, found)

\* [c for c in required_list if c not in found_types]
MissingClauses(required_list, found_types) ==
  LET absent(c) == c \notin found_types
  IN  SelectSeq(required_list, absent)

\* ------------------------------------------------------------ input texts
PieceTermination ==
  <<"1", ".", " ", "T", "e", "r", "m", "i", "n", "a", "t", "i", "o", "n", ".", " ", "E", "i", "t", "h", "e", "r", " ", "p", "a", "r", "t", "y", " ", "m", "a", "y", " ", "t", "e", "r", "m", "i", "n", "a", "t", "e", " ", "t", "h", "i", "s", " ", "A", "g", "r", "e", "e", "m", "e", "n", "t", " ", "w", "i", "t", "h", " ", "6", "0", " ", "d", "a", "y", "s", " ", "w", "r", "i", "t", "t", "e", "n", " ", "n", "o", "t", "i", "c", "e", ".", "\n", "\n">>
PieceConfidentiality ==
  <<"2", ".", " ", "C", "o", "n", "f", "i", "d", "e", "n", "t", "i", "a", "l", "i", "t", "y", ".", " ", "B", "o", "t", "h", " ", "p", "a", "r", "t", "i", "e", "s", " ", "s", "h", "a", "l", "l", " ", "k", "e", "e", "p", " ", "a", "l", "l", " ", "i", "n", "f", "o", "r", "m", "a", "t", "i", "o", "n", " ", "c", "o", "n", "f", "i", "d", "e", "n", "t", "i", "a", "l", ".">>
PiecePaymentTerminate ==
  <<"\n", "P", "A", "Y", "M", "E", "N", "T", ":", " ", "t", "h", "e", " ", "S", "a", "l", "a", "r", "y", " ", "i", "s", " ", "d", "u", "e", " ", "m", "o", "n", "t", "h", "l", "y", " ", "u", "n", "l", "e", "s", "s", " ", "a", " ", "p", "a", "r", "t", "y", " ", "T", "e", "r", "m", "i", "n", "a", "t", "e", "s", " ", "e", "a", "r", "l", "y", ".", "\n">>
PieceHeader ==
  <<"D", "e", "f", "i", "n", "i", "t", "i", "o", "n", "s", "\n", "\n">>
PieceRoman ==
  <<"I", "I", "I", "I", "I", "I", "I", "I", "I", "I", "I", "I", "I", "I", "I", "I", "I", "I", "I", "I", "I", "I", "I", "I", "I", "i", "i", "i", "i", "i", "i", "i", "i", "i", "i", "i", "i", "i", "i", "i", "i", "i", "i", "i", "i", "i", "i", "i", "i", "i", "\n", "\n">>
PieceOther ==
  <<" ", "T", "h", "e", " ", "p", "a", "r", "t", "i", "e", "s", " ", "s", "h", "a", "l", "l", " ", "c", "o", "o", "p", "e", "r", "a", "t", "e", "\r", "\n", "i", "n", " ", "g", "o", "o", "d", " ", "f", "a", "i", "t", "h", " ", "a", "n", "d", "\t", "\t", "a", "c", "t", " ", " ", " ", "r", "e", "a", "s", "o", "n", "a", "b", "l", "y", ".", "\n", "\n">>
PieceTabs ==
  <<"\t", " ", "\r", "S", "e", "e", " ", "\t", " ", "a", "n", "n", "e", "x", "\r", " ", "\t">>
PieceAssign ==
  <<"\n", "2", ".", "1", " ", "T", "h", "e", " ", "T", "e", "n", "a", "n", "t", " ", "m", "a", "y", " ", "n", "o", "t", " ", "a", "s", "s", "i", "g", "n", " ", "t", "h", "i", "s", " ", "a", "g", "r", "e", "e", "m", "e", "n", "t", " ", "t", "o", " ", "a", "n", "y", " ", "t", "h", "i", "r", "d", " ", "p", "a", "r", "t", "y", ".", "\n">>
PieceFifty ==
  <<"R", "e", "n", "t", " ", "i", "s", " ", "d", "u", "e", " ", "o", "n", " ", "t", "h", "e", " ", "f", "i", "r", "s", "t", " ", "d", "a", "y", "\n", "o", "f", " ", "e", "a", "c", "h", " ", "m", "o", "n", "t", "h", " ", "i", "n", " ", "f", "u", "l", "l">>
PieceFortyNine ==
  <<"R", "e", "n", "t", " ", "i", "s", " ", "d", "u", "e", " ", "o", "n", " ", "t", "h", "e", " ", "f", "i", "r", "s", "t", " ", "d", "a", "y", "\n", "o", "f", " ", "e", "a", "c", "h", " ", "m", "o", "n", "t", "h", " ", "i", "n", " ", "f", "u", "l">>

Pieces == {PieceTermination, PieceConfidentiality, PiecePaymentTerminate, PieceHeader, PieceRoman, PieceOther, PieceTabs, PieceAssign,
           PieceFifty, PieceFortyNine}

RECURSIVE SeqsUpTo(_, _)
SeqsUpTo(S, n) ==
  IF n = 0 THEN {<<>>}
  ELSE LET shorter == SeqsUpTo(S, n - 1)
       IN  shorter \cup {Append(q, x) : q \in {t \in shorter : Len(t) = n - 1}, x \in S}

Documents == SeqsUpTo(Pieces, MaxPieces)

\* the variables of a run of the pipeline, when there is no run
NoLlmCall == [calls |-> 0, failure |-> "none", raised |-> "none", repeated |-> FALSE]

\* a worker thread that serves no request
IdleRequest == [pc |-> "idle", clause_list |-> <<>>, contract_type |-> "none", output |-> <<>>]

NoRun ==
  /\ requests = [t \in 1..NumRequests |-> IdleRequest]
  /\ api_key = TRUE
  /\ selected_type = "none"
  /\ pc = "none"
  /\ extracted_raw = <<>>
  /\ enriched_clauses = <<>>
  /\ llm = NoLlmCall
  /\ risk_map = EmptyDict
  /\ report = <<>>

\* ------------------------------------------------------------- TextSpec
\* The text functions of clause_extraction.py, each applied to the text of
\* an arbitrary document.
TextInit ==
  /\ pdf \in Documents
  /\ fn = "none"
  /\ args = <<>>
  /\ ret = <<>>
  /\ imported = {}
  /\ indexes = EmptyDict
  /\ metadata_store = EmptyDict
  /\ corpus = precedents
  /\ builds = 0
  /\ NoRun

CallPreprocess ==
  /\ fn = "none"
  /\ fn' = "preprocess_text"
  /\ ret' = preprocess_text(Flatten(pdf))
  /\ UNCHANGED <<pdf, args, engineVars, runVars>>

CallSplit ==
  /\ fn = "none"
  /\ fn' = "split_into_clauses"
  /\ ret' = split_into_clauses(Flatten(pdf))
  /\ UNCHANGED <<pdf, args, engineVars, runVars>>

CallClassify ==
  /\ fn = "none"
  /\ fn' = "classify_clause"
  /\ ret' = classify_clause(Flatten(pdf))
  /\ UNCHANGED <<pdf, args, engineVars, runVars>>

CallExtract ==
  /\ fn = "none"
  /\ fn' = "extract_clauses_from_pdf"
  /\ ret' = extract_clauses_from_pdf(pdf)
  /\ UNCHANGED <<pdf, args, engineVars, runVars>>

TextNext == CallPreprocess \/ CallSplit \/ CallClassify \/ CallExtract

TextSpec == TextInit /\ [][TextNext]_vars

\* --------------------------------------------------------- RetrieveSpec
\* retrieval_engine.py: the module is imported, which builds the indexes,
\* and then retrieve_similar or process_clauses is called with arbitrary
\* arguments. A behaviour shows one call: a call leaves the module's state
\* as it found it, so any later call starts from the state of the first.
QueryText ==
  <<"S", "e", "r", "v", "i", "c", "e", " ", "f", "e", "e", "s", " ", "m", "u", "s", "t", " ", "b", "e", " ", "p", "a", "i", "d", ".">>
QueryTexts == {<<>>, QueryText}

ContractTypes == {"Employment", "NDA", "Service", "Vendor", "Lease", "Partnership"}

CategoryTags == {Rules[r].tag : r \in 1..Len(Rules)} \cup {"Other"}

\* clauses as extract_clauses_from_pdf makes them, and one without the
\* clause_type key
SampleClauses ==
  {[clause_number |-> 1, clause_text |-> QueryText, clause_type |-> "Payment Clause",
    confidence_score |-> ConfidenceScore],
   [clause_number |-> 2, clause_text |-> QueryText, clause_type |-> "Other",
    confidence_score |-> ConfidenceScore],
   [clause_number |-> 3, clause_text |-> <<>>, clause_type |-> "Termination Clause",
    confidence_score |-> ConfidenceScore],
   [clause_number |-> 4, clause_text |-> QueryText, confidence_score |-> ConfidenceScore]}

RetrieveInit ==
  /\ pdf = <<>>
  /\ fn = "none"
  /\ args = <<>>
  /\ ret = <<>>
  /\ imported = {}
  /\ indexes = EmptyDict
  /\ metadata_store = EmptyDict
  /\ corpus = precedents
  /\ builds = 0
  /\ NoRun

\* import retrieval_engine: its top-level code ends with build_indexes()
ImportRetrievalEngine ==
  /\ "retrieval_engine" \notin imported
  /\ imported' = imported \cup {"retrieval_engine"}
  /\ indexes' = build_indexes.indexes
  /\ metadata_store' = build_indexes.metadata_store
  /\ builds' = builds + 1
  /\ UNCHANGED <<pdf, callVars, corpus, runVars>>

CallRetrieveSimilar ==
  /\ "retrieval_engine" \in imported
  /\ fn = "none"
  /\ \E clause_text \in QueryTexts, contract_type \in ContractTypes,
        clause_type \in CategoryTags, top_k \in 1..MaxTopK :
       /\ fn' = "retrieve_similar"
       /\ args' = <<clause_text, contract_type, clause_type, top_k>>
       /\ ret' \in retrieve_similar(clause_text, contract_type, clause_type, top_k)
  /\ UNCHANGED <<pdf, engineVars, runVars>>

CallProcessClauses ==
  /\ "retrieval_engine" \in imported
  /\ fn = "none"
  /\ \E clause_list \in SeqsUpTo(SampleClauses, MaxClauses), contract_type \in ContractTypes :
       /\ fn' = "process_clauses"
       /\ args' = <<clause_list, contract_type>>
       /\ ret' \in process_clauses(clause_list, contract_type)
  /\ UNCHANGED <<pdf, engineVars, runVars>>

RetrieveNext == ImportRetrievalEngine \/ CallRetrieveSimilar \/ CallProcessClauses

RetrieveSpec == RetrieveInit /\ [][RetrieveNext]_vars

\* ------------------------------------------------------------------ Spec
\* One run of pipeline.py on a document: the imports at its top, then
\* run_analysis_pipeline(pdf, contract_type).
RunDocuments ==
  {"missing",
   <<>>,
   <<PieceHeader>>,
   <<PieceOther>>,
   <<PieceTermination, PieceConfidentiality>>,
   <<PieceTermination, PiecePaymentTerminate>>,
   <<PieceTermination, PieceConfidentiality, PieceFifty>>}

Init ==
  /\ pdf \in RunDocuments
  /\ fn = "none"
  /\ args = <<>>
  /\ ret = <<>>
  /\ imported = {}
  /\ indexes = EmptyDict
  /\ metadata_store = EmptyDict
  /\ corpus = precedents
  /\ builds = 0
  /\ requests = [t \in 1..NumRequests |-> IdleRequest]
  /\ api_key \in BOOLEAN
  /\ selected_type \in ContractTypes
  /\ pc = "start"
  /\ extracted_raw = <<>>
  /\ enriched_clauses = <<>>
  /\ llm = NoLlmCall
  /\ risk_map = EmptyDict
  /\ report = <<>>

\* pipeline.py lines 4-6: clause_extraction, then retrieval_engine, whose
\* top-level code builds the indexes, then llm_engine, whose top-level code
\* raises ValueError when GROQ_API_KEY is not set
ImportModules ==
  /\ pc = "start"
  /\ indexes' = build_indexes.indexes
  /\ metadata_store' = build_indexes.metadata_store
  /\ IF api_key
       THEN /\ imported' = {"clause_extraction", "retrieval_engine", "llm_engine", "pipeline"}
            /\ pc' = "ready"
       ELSE /\ imported' = {"clause_extraction", "retrieval_engine"}
            /\ pc' = "import_error"
  /\ builds' = builds + 1
  /\ UNCHANGED <<pdf, callVars, corpus, requests, api_key, selected_type, extracted_raw,
                 enriched_clauses, llm, risk_map, report>>

\* line 63: extracted_raw = extract_clauses_from_pdf(pdf_path)
ExtractClauses ==
  /\ pc = "ready"
  /\ LET r == extract_clauses_from_pdf(pdf)
     IN  IF r.ok
           THEN extracted_raw' = r.clauses /\ pc' = "extracted"
           ELSE extracted_raw' = extracted_raw /\ pc' = "file_not_found"
  /\ UNCHANGED <<pdf, callVars, engineVars, requests, api_key, selected_type, enriched_clauses,
                 llm, risk_map, report>>

\* line 66: enriched_clauses = find_similarities(extracted_raw, contract_type)
FindSimilarities ==
  /\ pc = "extracted"
  /\ \E r \in process_clauses(extracted_raw, selected_type) :
       IF r.raised = "none"
         THEN enriched_clauses' = r.value /\ pc' = "enriched"
         ELSE enriched_clauses' = enriched_clauses /\ pc' = "crashed"
  /\ UNCHANGED <<pdf, callVars, engineVars, requests, api_key, selected_type, extracted_raw,
                 llm, risk_map, report>>

\* line 70, analyze_batch_risk lines 96-97: no clause, no call
AnalyzeNothing ==
  /\ pc = "enriched"
  /\ enriched_clauses = <<>>
  /\ risk_map' = EmptyDict
  /\ pc' = "scored"
  /\ UNCHANGED <<pdf, callVars, engineVars, requests, api_key, selected_type, extracted_raw,
                 enriched_clauses, llm, report>>

\* what the Groq call and the reading of its answer can come to, up to the
\* loop over the results (lines 102-123)
CallOutcomes ==
  {[failure |-> "api_error", raised |-> "APIError", next |-> "scored"],
   [failure |-> "api_error", raised |-> "APITimeoutError", next |-> "scored"],
   [failure |-> "invalid_json", raised |-> "JSONDecodeError", next |-> "scored"],
   \* the JSON value is no object: parsed.get raises
   [failure |-> "malformed", raised |-> "AttributeError", next |-> "scored"],
   \* "results" is null or a number: the for statement raises
   [failure |-> "malformed", raised |-> "TypeError", next |-> "scored"],
   \* the object has no "results": the default [] is used
   [failure |-> "malformed", raised |-> "none", next |-> "scored"],
   \* "results" is an array
   [failure |-> "none", raised |-> "none", next |-> "parsing"]}

\* the call made again, once, when it has raised
CallGroq_Retry ==
  /\ pc = "enriched"
  /\ enriched_clauses # <<>>
  /\ llm.calls < 2
  /\ \E o \in CallOutcomes :
       /\ llm' = [calls |-> llm.calls + 1, failure |-> o.failure, raised |-> o.raised,
                 repeated |-> FALSE]
       /\ risk_map' = IF o.raised = "none" THEN EmptyDict
                      ELSE FallbackMap(enriched_clauses, o.raised)
       /\ pc' = IF o.raised # "none" /\ llm.calls = 0 THEN "enriched" ELSE o.next
  /\ UNCHANGED <<pdf, callVars, engineVars, requests, api_key, selected_type, extracted_raw,
                 enriched_clauses, report>>

\* line 70, analyze_batch_risk lines 99-123 and 136-144
CallGroq ==
  /\ pc = "enriched"
  /\ enriched_clauses # <<>>
  /\ \E o \in CallOutcomes :
       /\ llm' = [calls |-> llm.calls + 1, failure |-> o.failure, raised |-> o.raised,
                 repeated |-> FALSE]
       /\ risk_map' = IF o.raised = "none" THEN EmptyDict
                      ELSE FallbackMap(enriched_clauses, o.raised)
       /\ pc' = o.next
  /\ UNCHANGED <<pdf, callVars, engineVars, requests, api_key, selected_type, extracted_raw,
                 enriched_clauses, report>>

\* analyze_batch_risk lines 125-132: one turn of the loop, on the next item
\* of the answer; lines 136-144 when the turn raises
ParseItem ==
  /\ pc = "parsing"
  /\ \E item \in ResultItems(Len(enriched_clauses)) :
       LET r == ParseResultItem(risk_map, item)
           failure == IF WellFormedItem(item) THEN llm.failure ELSE "malformed"
           \* the item names a clause number an earlier item has named
           repeated == r.raised = "none" /\ r.map # risk_map
                         /\ DOMAIN r.map = DOMAIN risk_map
       IN  /\ llm' = [llm EXCEPT !.failure = failure, !.raised = r.raised,
                                 !.repeated = @ \/ repeated]
           /\ IF r.raised = "none"
                THEN risk_map' = r.map /\ pc' = "parsing"
                ELSE risk_map' = FallbackMap(enriched_clauses, r.raised) /\ pc' = "scored"
  /\ UNCHANGED <<pdf, callVars, engineVars, requests, api_key, selected_type, extracted_raw,
                 enriched_clauses, report>>

\* analyze_batch_risk line 134: the results are exhausted
ReturnRiskMap ==
  /\ pc = "parsing"
  /\ pc' = "scored"
  /\ UNCHANGED <<pdf, callVars, engineVars, requests, api_key, selected_type, extracted_raw,
                 enriched_clauses, llm, risk_map, report>>

\* lines 73-104
AssembleReport ==
  /\ pc = "scored"
  /\ report' = [contract_type |-> selected_type,
                missing_clauses |-> MissingClauses(Get(REQUIRED_CLAUSES, selected_type, <<>>),
                                                   FoundTypes(enriched_clauses)),
                clauses |-> FinalClauses(enriched_clauses, risk_map)]
  /\ pc' = "done"
  /\ UNCHANGED <<pdf, callVars, engineVars, requests, api_key, selected_type, extracted_raw,
                 enriched_clauses, llm, risk_map>>

Next ==
  \/ ImportModules
  \/ ExtractClauses
  \/ FindSimilarities
  \/ AnalyzeNothing
  \/ CallGroq
  \/ ParseItem
  \/ ReturnRiskMap
  \/ AssembleReport

Spec == Init /\ [][Next]_vars

\* -------------------------------------------------------- ConcurrentSpec
\* One process whose worker threads serve analysis requests at the same
\* time. A thread gets process_clauses from `from retrieval_engine import
\* process_clauses`, which returns only when the top-level code of the module
\* has run, and runs that code only when the module is not yet in
\* sys.modules. A step of a thread is one turn of the loop of
\* process_clauses, that is one call of retrieve_similar.

\* a lookup that stores an empty group under a key it does not find
AfterLookup_StoreMissing(store, key) ==
  IF key \in DOMAIN store THEN store ELSE Put(store, key, <<>>)

\* the dict a lookup leaves: `key in d` and d[key] on a dict store nothing
AfterLookup(store, key) == store

\* the clause of SampleClauses with this number
SampleClause(n) == CHOOSE c \in SampleClauses : c.clause_number = n

\* the requests a thread can be given: clause_list and contract_type
RequestInputs ==
  {<<<<SampleClause(1), SampleClause(4)>>, "Service">>,
   <<<<SampleClause(2)>>, "Partnership">>}

ConcurrentInit ==
  /\ pdf = <<>>
  /\ fn = "none"
  /\ args = <<>>
  /\ ret = <<>>
  /\ imported = {}
  /\ indexes = EmptyDict
  /\ metadata_store = EmptyDict
  /\ corpus = precedents
  /\ builds = 0
  /\ NoRun

\* process_clauses(clause_list, contract_type) is entered: output = []
StartRequest(t) ==
  /\ "retrieval_engine" \in imported
  /\ requests[t].pc = "idle"
  /\ \E input \in RequestInputs :
       requests' = [requests EXCEPT ![t] = [pc |-> "running", clause_list |-> input[1],
                                            contract_type |-> input[2], output |-> <<>>]]
  /\ UNCHANGED <<pdf, callVars, engineVars, api_key, selected_type, pc, extracted_raw,
                 enriched_clauses, llm, risk_map, report>>

\* one turn of `for clause in clause_list`: retrieve_similar reads indexes
\* and metadata_store, and the enriched clause is appended to output
RetrieveStep(t) ==
  /\ requests[t].pc = "running"
  /\ Len(requests[t].output) < Len(requests[t].clause_list)
  /\ LET clause == requests[t].clause_list[Len(requests[t].output) + 1]
         clause_text == Get(clause, "clause_text", <<>>)
         clause_type == Get(clause, "clause_type", "Other")
         key == <<requests[t].contract_type, clause_type>>
         enriched(similar_clauses) ==
           [clause_number |-> Get(clause, "clause_number", None),
            clause |-> clause_text,
            clause_type |-> clause_type,
            confidence_score |-> Get(clause, "confidence_score", None),
            similar_clauses |-> similar_clauses]
     IN  /\ \E h \in retrieve_similar(clause_text, requests[t].contract_type, clause_type, TOP_K) :
              requests' = [requests EXCEPT ![t] =
                             IF h.raised = "none"
                               THEN [@ EXCEPT !.output = Append(@, enriched(h.value))]
                               ELSE [@ EXCEPT !.pc = "crashed"]]
         /\ indexes' = AfterLookup(indexes, key)
         /\ metadata_store' = AfterLookup(metadata_store, key)
  /\ UNCHANGED <<pdf, callVars, imported, corpus, builds, api_key, selected_type, pc,
                 extracted_raw, enriched_clauses, llm, risk_map, report>>

\* return output
ReturnOutput(t) ==
  /\ requests[t].pc = "running"
  /\ Len(requests[t].output) = Len(requests[t].clause_list)
  /\ requests' = [requests EXCEPT ![t].pc = "returned"]
  /\ UNCHANGED <<pdf, callVars, engineVars, api_key, selected_type, pc, extracted_raw,
                 enriched_clauses, llm, risk_map, report>>

\* the thread is free for the next request
NextRequest(t) ==
  /\ requests[t].pc = "returned"
  /\ requests' = [requests EXCEPT ![t] = IdleRequest]
  /\ UNCHANGED <<pdf, callVars, engineVars, api_key, selected_type, pc, extracted_raw,
                 enriched_clauses, llm, risk_map, report>>

ConcurrentNext ==
  \/ ImportRetrievalEngine
  \/ \E t \in 1..NumRequests : StartRequest(t)
  \/ \E t \in 1..NumRequests : RetrieveStep(t)
  \/ \E t \in 1..NumRequests : ReturnOutput(t)
  \/ \E t \in 1..NumRequests : NextRequest(t)

ConcurrentSpec == ConcurrentInit /\ [][ConcurrentNext]_vars

\* ------------------------------------------------- properties of TextSpec
\* the order of the rules as the specification lists them
ClaimedTagOrder ==
  <<"Termination Clause", "Confidentiality Clause", "Liability Clause",
    "Intellectual Property Clause", "Governing Law Clause", "Notice Clause",
    "Assignment Clause", "Payment Clause">>

\* kw is a substring of s, letter case ignored
ContainsIgnoreCase(s, kw) ==
  \E i \in 1..(Len(s) - Len(kw) + 1) :
    \A j \in 1..Len(kw) : LowerChar(s[i + j - 1]) = LowerChar(kw[j])

KeywordsOf(tag) == Rules[CHOOSE r \in 1..Len(Rules) : Rules[r].tag = tag].keywords

\* the positions in ClaimedTagOrder of the rules with a keyword in s
MatchingRules(s) ==
  {k \in 1..Len(ClaimedTagOrder) :
     \E n \in 1..Len(KeywordsOf(ClaimedTagOrder[k])) :
       ContainsIgnoreCase(s, KeywordsOf(ClaimedTagOrder[k])[n])}

\* C1: classify_clause returns the tag of the first rule, in the order
\* Termination, Confidentiality, Liability, Intellectual Property, Governing
\* Law, Notice, Assignment, Payment, that has a keyword in the clause
\* (case-insensitive substring), Other when there is none; a clause with a
\* Termination keyword and a Payment keyword is tagged Termination.
C1_ClassifyFirstMatch ==
  fn = "classify_clause" =>
    LET m == MatchingRules(Flatten(pdf))
    IN  /\ ret = (IF m = {} THEN "Other" ELSE ClaimedTagOrder[Min(m)])
        /\ (1 \in m /\ 8 \in m => ret = "Termination Clause")

\* a clause with a Payment keyword in capitals and a Termination keyword was
\* classified
C1_Witness ==
  /\ fn = "classify_clause"
  /\ pdf = <<PiecePaymentTerminate>>
  /\ {1, 8} \subseteq MatchingRules(Flatten(pdf))
  /\ ret = "Termination Clause"

\* C9: every fragment split_into_clauses returns is trimmed, has no newline
\* left, has length >= 50 and is no bare letter or run of i, v or x; the
\* empty text gives the empty sequence.
C9_FragmentsLongEnough ==
  fn = "split_into_clauses" =>
    /\ \A k \in 1..Len(ret) :
         /\ Len(ret[k]) >= 50
         /\ ~IsSpace(ret[k][1]) /\ ~IsSpace(ret[k][Len(ret[k])])
         /\ \A i \in 1..Len(ret[k]) : ret[k][i] # "\n"
         /\ ~(Len(ret[k]) = 1 /\ IsLetter(ret[k][1]))
         /\ \A c \in {"i", "v", "x"} :
              \E i \in 1..Len(ret[k]) : LowerChar(ret[k][i]) # c
    /\ (Flatten(pdf) = <<>> => ret = <<>>)

\* a run of fifty i was discarded and a fragment of exactly 50 characters,
\* its newline collapsed, was returned
C9_Witness ==
  /\ fn = "split_into_clauses"
  /\ pdf = <<PieceRoman, PieceFifty>>
  /\ Len(ret) = 1
  /\ Len(ret[1]) = 50
  /\ \E i \in 1..Len(PieceFifty) : PieceFifty[i] = "\n" /\ ret[1][i] = " "

\* C10: extract_clauses_from_pdf numbers the surviving fragments 1..n in
\* order: the i-th clause has number i and the text of the i-th survivor.
C10_DenseNumbering ==
  fn = "extract_clauses_from_pdf" =>
    /\ ret.ok
    /\ \A i \in 1..Len(ret.clauses) : ret.clauses[i].clause_number = i
    /\ {ret.clauses[i].clause_number : i \in 1..Len(ret.clauses)} = 1..Len(ret.clauses)
    /\ [i \in 1..Len(ret.clauses) |-> ret.clauses[i].clause_text]
         = split_into_clauses(preprocess_text(PagesText(pdf)))

\* two clauses were numbered and raw fragments were discarded around them
C10_Witness ==
  /\ fn = "extract_clauses_from_pdf"
  /\ Len(ret.clauses) = 2
  /\ Len(ReSplit(preprocess_text(PagesText(pdf)))) > 3
  /\ ret.clauses[2].clause_number = 2

\* --------------------------------------------- properties of RetrieveSpec
\* the number of precedents of the corpus under (contract_type, clause_type)
GroupSize(contract_type, clause_type) ==
  Cardinality({i \in 1..Len(precedents) :
                 /\ precedents[i].contract_type = contract_type
                 /\ precedents[i].clause_type = clause_type})

\* C2: retrieve_similar returns no match with a score below 0.45, at most
\* min(top_k, size of the group) matches, and the matches by descending
\* score.
C2_FloorCountOrder ==
  fn = "retrieve_similar" =>
    /\ ret.raised = "none"
    /\ \A a \in 1..Len(ret.value) : ret.value[a].score >= 45000
    /\ Len(ret.value) <= args[4]
    /\ Len(ret.value) <= GroupSize(args[2], args[3])
    /\ \A a, b \in 1..Len(ret.value) : a < b => ret.value[a].score >= ret.value[b].score

\* a group of two was searched with top_k above its size, and both
\* precedents came back, the second with a score right at the floor
C2_Witness ==
  /\ fn = "retrieve_similar"
  /\ args = <<QueryText, "Employment", "Payment Clause", 3>>
  /\ Len(ret.value) = 2
  /\ ret.value[1].score > ret.value[2].score
  /\ ret.value[2].score = 45000

\* C3: retrieve_similar with an empty text, or a (contract_type, clause_type)
\* pair that has no group, returns the empty sequence and does not raise; so
\* process_clauses does not raise, and gives such clauses no matches.
C3_MissReturnsEmpty ==
  /\ fn = "retrieve_similar" /\ (args[1] = <<>> \/ GroupSize(args[2], args[3]) = 0)
       => ret = [raised |-> "none", value |-> <<>>]
  /\ fn = "process_clauses" =>
       /\ ret.raised = "none"
       /\ Len(ret.value) = Len(args[1])
       /\ \A i \in 1..Len(ret.value) :
            (ret.value[i].clause = <<>> \/ GroupSize(args[2], ret.value[i].clause_type) = 0)
              => ret.value[i].similar_clauses = <<>>

\* a text was looked up under category Other, which has no group
C3_Witness ==
  /\ fn = "retrieve_similar"
  /\ args[1] # <<>>
  /\ args[3] = "Other"
  /\ ret = [raised |-> "none", value |-> <<>>]

\* ----------------------------------------------------- properties of Spec
ClauseNumbers(clauses) == {clauses[i].clause_number : i \in 1..Len(clauses)}

\* map has an entry for every clause, each High with an engine error
IsEngineErrorMap(map, clauses) ==
  /\ DOMAIN map = ClauseNumbers(clauses)
  /\ \A num \in DOMAIN map :
       /\ map[num].risk_level = "High"
       /\ map[num].explanation[1] = "Groq Engine Error: "

\* C4 as stated: whenever the risk-scoring call fails in any way (the call
\* throws, the answer is no valid JSON, or the parsed answer is malformed),
\* analyze_batch_risk returns an entry for every clause, each High with an
\* engine error.
C4_AnyFailureGivesFallback ==
  pc \in {"scored", "done"} /\ llm.failure # "none"
    => IsEngineErrorMap(risk_map, enriched_clauses)

\* C4 amended: whenever the call, the parsing of the answer or the reading
\* of the results raises an exception, analyze_batch_risk returns an entry
\* for every clause, each High with an engine error, and the report has all
\* its clauses High; an answer that is malformed without raising anything
\* gets no engine-error entry.
C4_RaisedGivesFallback ==
  pc \in {"scored", "done"} =>
    /\ llm.raised # "none" =>
         /\ IsEngineErrorMap(risk_map, enriched_clauses)
         /\ pc = "done" =>
              /\ Len(report.clauses) = Len(enriched_clauses)
              /\ \A i \in 1..Len(report.clauses) :
                   /\ report.clauses[i].risk_level = "High"
                   /\ report.clauses[i].explanation[1] = "Groq Engine Error: "
    /\ llm.raised = "none" =>
         \A num \in DOMAIN risk_map : risk_map[num].explanation[1] # "Groq Engine Error: "

\* an item of the answer made int() raise, and the report of two clauses
\* has both High
C4_Witness ==
  /\ pc = "done"
  /\ llm.raised = "ValueError"
  /\ Len(enriched_clauses) = 2
  /\ report.clauses[1].risk_level = "High"
  /\ report.clauses[2].risk_level = "High"

\* C5: a clause whose number is not in the mapping gets Unknown and "No risk
\* data returned for this clause."; the other clauses get the mapping's
\* values; a mapping of any size lets the report be assembled.
C5_MissingNumberIsUnknown ==
  /\ pc = "done" =>
       /\ Len(report.clauses) = Len(enriched_clauses)
       /\ \A i \in 1..Len(enriched_clauses) :
            LET num == enriched_clauses[i].clause_number
            IN  IF num \in DOMAIN risk_map
                  THEN /\ report.clauses[i].risk_level = risk_map[num].risk_level
                       /\ report.clauses[i].explanation = risk_map[num].explanation
                  ELSE /\ report.clauses[i].risk_level = "Unknown"
                       /\ report.clauses[i].explanation
                            = <<"No risk data returned for this clause.">>
  /\ pc = "scored" => ENABLED AssembleReport

\* the answer named clause 1 only: clause 2 of the report is Unknown
C5_Witness ==
  /\ pc = "done"
  /\ llm.raised = "none"
  /\ DOMAIN risk_map = {1}
  /\ Len(enriched_clauses) = 2
  /\ report.clauses[1].risk_level = "Low"
  /\ report.clauses[2].risk_level = "Unknown"

\* the position of c in the sequence q, 0 when it is not there
PositionIn(q, c) ==
  IF \E i \in 1..Len(q) : q[i] = c THEN Min({i \in 1..Len(q) : q[i] = c}) ELSE 0

\* C6: missing_clauses holds exactly the required categories of the contract
\* type that no extracted clause has, in the order of the required list; with
\* no clause it is the whole required list.
C6_MissingClauses ==
  pc = "done" =>
    LET required == IF selected_type \in DOMAIN REQUIRED_CLAUSES
                      THEN REQUIRED_CLAUSES[selected_type] ELSE <<>>
        found == {extracted_raw[i].clause_type : i \in 1..Len(extracted_raw)}
        missing == report.missing_clauses
    IN  /\ {missing[i] : i \in 1..Len(missing)}
             = {required[i] : i \in 1..Len(required)} \ found
        /\ \A a, b \in 1..Len(missing) :
             a < b => PositionIn(required, missing[a]) < PositionIn(required, missing[b])
        /\ (extracted_raw = <<>> => missing = required)

\* an Employment contract with a Termination and a Confidentiality clause
C6_Witness ==
  /\ pc = "done"
  /\ selected_type = "Employment"
  /\ Len(extracted_raw) = 2
  /\ extracted_raw[1].clause_type = "Termination Clause"
  /\ extracted_raw[2].clause_type = "Confidentiality Clause"
  /\ report.missing_clauses = <<"Payment Clause", "Notice Clause", "Governing Law Clause">>

\* C7: with a readable document the run always returns a report, whatever
\* the state of the risk-scoring service, the API key missing included.
C7_ReportAlwaysProduced ==
  pdf # "missing" => pc \notin {"import_error", "file_not_found", "crashed"}

\* C8: every risk_level of a report is Low, Medium, High or Unknown.
C8_RiskLevelInEnum ==
  pc = "done" =>
    \A i \in 1..Len(report.clauses) :
      report.clauses[i].risk_level \in {"Low", "Medium", "High", "Unknown"}

\* C11: process_clauses returns one enriched clause per input clause, in the
\* same order, each with the number, text and category of the input clause
\* at its position (so unique input numbers give unique output numbers), and
\* with the matches of a lookup made under that clause's own category and
\* the selected contract type.
C11_EnrichedKeepsClauses ==
  fn = "process_clauses" =>
    LET input == args[1]
        output == ret.value
    IN  /\ ret.raised = "none"
        /\ Len(output) = Len(input)
        /\ \A i \in 1..Len(input) :
             /\ output[i].clause_number = input[i].clause_number
             /\ output[i].clause = input[i].clause_text
             /\ output[i].clause_type
                  = (IF "clause_type" \in DOMAIN input[i] THEN input[i].clause_type ELSE "Other")
             /\ \E r \in retrieve_similar(output[i].clause, args[2], output[i].clause_type, TOP_K) :
                  r.value = output[i].similar_clauses
             /\ \A a \in 1..Len(output[i].similar_clauses) :
                  \E n \in 1..Len(precedents) :
                    /\ precedents[n].contract_type = args[2]
                    /\ precedents[n].clause_type = output[i].clause_type
                    /\ precedents[n].text = output[i].similar_clauses[a].text
        /\ (\A i, j \in 1..Len(input) : i # j => input[i].clause_number # input[j].clause_number)
             => \A i, j \in 1..Len(output) :
                  i # j => output[i].clause_number # output[j].clause_number

\* a Payment clause and then a clause without category were enriched for an
\* Employment contract: the first has a match, the second has none
C11_Witness ==
  /\ fn = "process_clauses"
  /\ args[2] = "Employment"
  /\ Len(args[1]) = 2
  /\ ret.value[1].clause_number = 1 /\ ret.value[1].clause_type = "Payment Clause"
  /\ ret.value[2].clause_number = 4 /\ ret.value[2].clause_type = "Other"
  /\ Len(ret.value[1].similar_clauses) >= 1
  /\ ret.value[2].similar_clauses = <<>>

\* C12: the clauses list of the report has exactly one entry per extracted
\* clause, in the order of extraction, and the title of the i-th entry is the
\* category of the i-th extracted clause, whatever clause numbers the items
\* of the Groq answer name (unknown ones, repeated ones, or none).
C12_ReportOneEntryPerClause ==
  pc = "done" =>
    /\ Len(report.clauses) = Len(extracted_raw)
    /\ \A i \in 1..Len(extracted_raw) :
         report.clauses[i].title = extracted_raw[i].clause_type

\* a report about two clauses of different categories, made after an answer
\* that named a clause number no clause has, named a number twice, and left
\* the second clause out
C12_Witness ==
  /\ pc = "done"
  /\ Len(extracted_raw) = 2
  /\ extracted_raw[1].clause_type # extracted_raw[2].clause_type
  /\ llm.raised = "none"
  /\ llm.repeated
  /\ DOMAIN risk_map = {1, 3}
  /\ Len(report.clauses) = 2

\* C13: preprocess_text is idempotent, and the text it returns has no
\* carriage return, no tab, no two spaces in a row, and no whitespace at
\* its start or its end.
C13_PreprocessIdempotent ==
  fn = "preprocess_text" =>
    /\ preprocess_text(ret) = ret
    /\ \A i \in 1..Len(ret) : ret[i] \notin {"\r", "\t"}
    /\ \A i \in 1..(Len(ret) - 1) : ~(ret[i] = " " /\ ret[i + 1] = " ")
    /\ ret # <<>> => ~IsSpace(ret[1]) /\ ~IsSpace(ret[Len(ret)])

\* a text that starts and ends with whitespace and holds a lone carriage
\* return, a carriage return with line feed, tabs and a run of spaces was
\* normalised to something else
C13_Witness ==
  /\ fn = "preprocess_text"
  /\ LET text == Flatten(pdf)
     IN  /\ Len(text) > 0 /\ IsSpace(text[1]) /\ IsSpace(text[Len(text)])
         /\ Contains(text, <<"\r", "\n">>)
         /\ Contains(text, <<"\r", " ">>)
         /\ Contains(text, <<"\t", "\t">>)
         /\ Contains(text, <<" ", " ", " ">>)
         /\ ret # text
         /\ Len(ret) > 0

\* the order of the statements of run_analysis_pipeline
StageSteps ==
  {<<"start", "ready">>, <<"start", "import_error">>,
   <<"ready", "extracted">>, <<"ready", "file_not_found">>,
   <<"extracted", "enriched">>, <<"extracted", "crashed">>,
   <<"enriched", "parsing">>, <<"enriched", "scored">>,
   <<"parsing", "scored">>,
   <<"scored", "done">>}

\* C15: a run goes through extraction, retrieval for every clause, risk
\* scoring and report assembly in this order, each stage working on the
\* finished result of the one before; it calls the Groq client at most once:
\* once when there is a clause, never when there is none (the risk map is
\* then empty), and a call that failed is not made again.
C15_StagesInOrderOneCall ==
  /\ [](/\ llm.calls <= 1
        /\ pc \in {"start", "ready", "extracted", "enriched"} => llm.calls = 0
        /\ pc \in {"enriched", "parsing", "scored", "done"} =>
             Len(enriched_clauses) = Len(extracted_raw)
        /\ pc \in {"scored", "done"} =>
             /\ llm.calls = (IF extracted_raw = <<>> THEN 0 ELSE 1)
             /\ extracted_raw = <<>> => risk_map = EmptyDict
        /\ pc # "done" => report = <<>>)
  /\ [][/\ pc' # pc => <<pc, pc'>> \in StageSteps
        /\ extracted_raw' # extracted_raw => pc = "ready"
        /\ enriched_clauses' # enriched_clauses => pc = "extracted"
        /\ llm.calls' # llm.calls => pc = "enriched" /\ llm.calls' = llm.calls + 1
        /\ risk_map' # risk_map => pc \in {"enriched", "parsing"}
        /\ report' # report => pc = "scored" /\ pc' = "done"]_vars

\* a report about two clauses was made after the only call had timed out
C15_Witness ==
  /\ pc = "done"
  /\ Len(extracted_raw) = 2
  /\ llm.calls = 1
  /\ llm.raised = "APITimeoutError"
  /\ Len(report.clauses) = 2
  /\ report.clauses[1].risk_level = "High"

\* the texts of the corpus entries of this group, in corpus order
CorpusTextsOf(key) ==
  LET positions == {n \in 1..Len(corpus) :
                      <<corpus[n].contract_type, corpus[n].clause_type>> = key}
      RECURSIVE InOrder(_)
      InOrder(from) ==
        IF \A n \in positions : n < from THEN <<>>
        ELSE LET n == Min({m \in positions : m >= from})
             IN  <<corpus[n].text>> \o InOrder(n + 1)
  IN  InOrder(1)

\* C14: build_indexes runs exactly once, before any request is served; it
\* leaves one group per (contract_type, clause_type) pair that has a
\* precedent, with the texts of the group in corpus order; after it, whatever
\* the interleaving of the requests, no step of process_clauses or
\* retrieve_similar changes indexes, metadata_store or the corpus, and each
\* request returns what process_clauses returns on its own.
C14_BuiltOnceThenReadOnly ==
  /\ [](/\ builds <= 1
        /\ builds = 1 <=> "retrieval_engine" \in imported
        /\ (\E t \in 1..NumRequests : requests[t].pc # "idle") => builds = 1
        /\ corpus = precedents
        /\ builds = 1 =>
             /\ DOMAIN indexes = {<<corpus[n].contract_type, corpus[n].clause_type>> :
                                    n \in 1..Len(corpus)}
             /\ DOMAIN metadata_store = DOMAIN indexes
             /\ \A key \in DOMAIN indexes :
                  /\ metadata_store[key] = CorpusTextsOf(key)
                  /\ Len(indexes[key].vectors) = Len(metadata_store[key])
                  /\ Len(metadata_store[key]) >= 1
        /\ \A t \in 1..NumRequests :
             /\ requests[t].pc # "crashed"
             /\ requests[t].pc = "returned" =>
                  Returns(requests[t].output)
                    \in process_clauses(requests[t].clause_list, requests[t].contract_type))
  /\ [][builds = 1 => UNCHANGED <<indexes, metadata_store, corpus, builds>>]_vars

\* two requests are in flight at once, one past a clause whose group exists
\* and one past a clause whose group does not
C14_Witness ==
  /\ builds = 1
  /\ \E t, u \in 1..NumRequests :
       /\ t # u
       /\ requests[t].pc = "running" /\ requests[t].contract_type = "Service"
       /\ Len(requests[t].output) = 1
       /\ Len(requests[t].output[1].similar_clauses) = 1
       /\ requests[u].pc = "running" /\ requests[u].contract_type = "Partnership"
       /\ Len(requests[u].output) = 1
       /\ <<"Partnership", "Other">> \notin DOMAIN indexes

====
